---- MODULE Spec2Model ----
(***************************************************************************)
(* Verification model of the gouyez/base Gmail hybrid manager:             *)
(*   - the account pipeline (gmail_hybrid_manager.py),                     *)
(*   - the Chrome session manager and CDP helpers (core/chrome.py),        *)
(*   - the OAuth loopback flow (core/gmail_api.py),                        *)
(*   - the CDP request/response loops of the plugins.                      *)
(* Each subsystem has its own specification over its own variables; the    *)
(* variables of the other subsystems stay at their initial value.          *)
(***************************************************************************)
EXTENDS Naturals, Integers, Sequences, FiniteSets, TLC

(* ------------------------------ bounds --------------------------------- *)
\* longest account list typed into the accounts box
MaxAccounts == 2
\* largest value of the concurrency spinbox explored
MaxPool == 2
\* number of HTTP requests sent to the callback listeners of one login
MaxRequests == 2
\* number of close_chrome_session calls made on one session
MaxCloses == 2
\* milliseconds that pass while one CDP connection is open
MaxTicks == 2
\* unsolicited events the browser sends on one CDP connection
MaxEvents == 2
\* iterations of the polling loop of _wait_for_video_end
MaxPolls == 2
\* local TCP ports the operating system hands out
MaxPorts == 4
\* longest raw account identifier whose paths are compared
MaxIdLen == 2

(* -------------------------- program constants --------------------------- *)
\* _send_cdp_cmd: int(time.time() * 1000) % 1000000
IdModulus == 1000000
\* _open_tab_via_debug_http, _tab_ready_state: msg_id = 1000, _id = 1000
FirstTabId == 1000

(* ------------------------- account identifiers -------------------------- *)
\* An account identifier is a string, modelled as a sequence of characters.
LowerOf == [c \in {"A", "B"} |-> IF c = "A" THEN "a" ELSE "b"]

lower(c) == IF c \in DOMAIN LowerOf THEN LowerOf[c] ELSE c

isalnum(c) == c \in {"a", "b", "A", "B", "1"}

RECURSIVE FilterMap(_, _, _)
\* "".join(f(c) for c in s if keep(c)) with the character-level f, keep given
\* as functions over the characters of s
FilterMap(s, keep, f) ==
    IF s = << >> THEN << >>
    ELSE LET c == Head(s)
             rest == FilterMap(Tail(s), keep, f)
         IN IF keep[c] THEN f[c] \o rest ELSE rest

CharsOf(s) == {s[i] : i \in 1..Len(s)}

\* core/chrome.py: lower-case, keep alnum and @ . _ -, then "@" -> "_at_",
\* "." -> "_"
_safe_email_token(email) ==
    LET low == [i \in 1..Len(email) |-> lower(email[i])]
        keep == [c \in CharsOf(low) |-> isalnum(c) \/ c \in {"@", ".", "_", "-"}]
        repl == [c \in CharsOf(low) |->
                    IF c = "@" THEN <<"_", "a", "t", "_">>
                    ELSE IF c = "." THEN <<"_">> ELSE <<c>>]
    IN FilterMap(low, keep, repl)

profile_dir_for(email) == <<"profiles">> \o _safe_email_token(email)

\* core/gmail_api.py: keep alnum and @ . _ - (no lower-casing), then
\* "@" -> "_at_"; the file is emails/<safe>.json
token_path_for(email) ==
    LET keep == [c \in CharsOf(email) |-> isalnum(c) \/ c \in {"@", ".", "_", "-"}]
        repl == [c \in CharsOf(email) |->
                    IF c = "@" THEN <<"_", "a", "t", "_">> ELSE <<c>>]
    IN <<"emails">> \o FilterMap(email, keep, repl) \o <<".json">>

\* the account identifiers the operator may type
Emails == {<<"a">>, <<"b">>}

RECURSIVE SeqsUpTo(_, _)
\* all sequences over S of length 0..n
SeqsUpTo(S, n) ==
    IF n = 0 THEN {<< >>}
    ELSE LET shorter == SeqsUpTo(S, n - 1)
         IN shorter \cup {Append(s, x) : s \in {q \in shorter : Len(q) = n - 1}, x \in S}

(* ------------------------------ plugins --------------------------------- *)
\* plugins/__init__.py: discovered plugins sorted by .order (search_filter is
\* -999), then in module order: click_links, open_gmail_ui, play_shorts,
\* unstar.  The other label-mutation API plugins behave like unstar for the
\* pipeline.
Registry == <<"search_filter", "click_links", "open_gmail_ui", "play_shorts", "unstar">>

group(p) == IF p \in {"search_filter", "unstar"} THEN "api" ELSE "chrome"

keep_open_after_run(p) == p = "open_gmail_ui"

\* plugins shown without a checkbox are always enabled (no_checkbox)
no_checkbox(p) == p = "search_filter"

RECURSIVE SelectSeq2(_, _)
SelectSeq2(s, S) ==
    IF s = << >> THEN << >>
    ELSE IF Head(s) \in S THEN <<Head(s)>> \o SelectSeq2(Tail(s), S)
         ELSE SelectSeq2(Tail(s), S)

RegistrySet == {Registry[i] : i \in 1..Len(Registry)}

\* run_processing_parallel: enabled = [p for p in self.plugins if enabled_vars[p].get()]
EnabledLists ==
    {SelectSeq2(Registry, S \cup {p \in RegistrySet : no_checkbox(p)}) :
        S \in SUBSET {p \in RegistrySet : ~no_checkbox(p)}}

(* --------------------------- pipeline state ----------------------------- *)
VARIABLES
    phase,          \* "idle" | "running" | "finished": run_processing_parallel
    accounts,       \* the account list read from the accounts box
    enabled,        \* the enabled plugins, in registry order
    maxConcurrent,  \* the worker pool size
    task,           \* per submitted account: the state of _process_one_account
    summaries,      \* number of completion summaries logged
    reported,       \* the number of accounts the last summary names
    shared_search_term  \* app.shared_search_term: the account whose
                    \* SearchFilterPlugin.run wrote it last (0: it holds what
                    \* __init__ or a key release in the entry put there)

orchVars == <<phase, accounts, enabled, maxConcurrent, task, summaries, reported,
              shared_search_term>>

(* ------------------------- OAuth loopback state ------------------------- *)
VARIABLES
    flowPc,     \* position inside oauth_first_login_in_session
    attempt,    \* the execution of _oauth_once_with_session in progress
    results,    \* how each finished execution ended
    listener,   \* per execution: its _ThreadedServer and its shared dict
    delivered   \* number of HTTP requests sent so far

oauthVars == <<flowPc, attempt, results, listener, delivered>>

(* ------------------------- Chrome session state ------------------------ *)
VARIABLES
    installs,   \* where a chrome.exe exists: subset of {"clone", "fallback"}
    sPc,        \* position inside start_chrome_session / close_chrome_session
    proc,       \* the browser process: "none", "running", "dying", "exited"
    endpoint,   \* the browser's debug HTTP endpoint: "down" or "up"
    wsId,       \* the _id counter of close_chrome_session's send closure
    steps,      \* the calls made on the process and the connection, in order
    closeCalls  \* number of close_chrome_session calls started

sessVars == <<installs, sPc, proc, endpoint, wsId, steps, closeCalls>>

(* ------------------------- CDP connection state ------------------------ *)
VARIABLES
    ckind,      \* the function that opened the connection
    cpc,        \* its position: "connect", "send", "wait", "done", "failed"
    counter,    \* the local id counter of the function (msg_id, _id)
    clock,      \* time.time() in milliseconds
    ticks,      \* milliseconds passed since the connection was opened
    sent,       \* the requests sent on the connection, in order
    inbox,      \* messages of the browser not yet read by ws.recv()
    answered,   \* the requests the browser has answered
    events,     \* number of events the browser has sent
    awaiting,   \* the request id the wait loop compares with
    taken,      \* the message a wait loop completed on, with the id awaited
    dropped,    \* the kinds of message the wait loops read and discarded
    polls,      \* iterations of the video polling loop started
    ret         \* what cdp_navigate returned, and the message that decided it

cdpVars == <<ckind, cpc, counter, clock, ticks, sent, inbox, answered, events,
             awaiting, taken, dropped, polls, ret>>

(* ------------------------- port allocation state ----------------------- *)
VARIABLES
    pw          \* per worker: its position, its ports, its browser, its listener

portVars == <<pw>>

(* ------------------------- path derivation state ------------------------ *)
VARIABLES
    ids,        \* two raw account identifiers
    dirs,       \* the directories derived for them so far
    store,      \* the token files: token path -> content
    loaded      \* the calls of load_credentials_for made for the identifiers

pathVars == <<ids, dirs, store, loaded>>

vars == <<orchVars, oauthVars, sessVars, cdpVars, portVars, pathVars>>

\* what each subsystem leaves alone
notOrch == <<oauthVars, sessVars, cdpVars, portVars, pathVars>>

notOAuth == <<orchVars, sessVars, cdpVars, portVars, pathVars>>

notSess == <<orchVars, oauthVars, cdpVars, portVars, pathVars>>

notCdp == <<orchVars, oauthVars, sessVars, portVars, pathVars>>

notPorts == <<orchVars, oauthVars, sessVars, cdpVars, pathVars>>

notPaths == <<orchVars, oauthVars, sessVars, cdpVars, portVars>>

Tasks == 1..Len(task)

\* a pipeline that starts a browser for every account
chrome_always == TRUE

\* requires_chrome = any(getattr(p, "group", "") == "chrome" for p in plugins)
requires_chrome == \E i \in 1..Len(enabled) : group(enabled[i]) = "chrome"

\* pc      the position of the worker inside _process_one_account
\* proc    the browser process launched for the account: "none", "running"
\*         or "exited"
\* sess    TRUE when start_chrome_session returned a ChromeSession
\* closes  number of close_chrome_session calls made on the session
\* attempt the execution of _oauth_once_with_session the worker is in, while
\*         inside oauth_first_login_in_session (0 outside of it)
\* token   the token file of the account as this worker knows it: "unread"
\*         until load_credentials_for looks at it, "valid" once the worker
\*         has rewritten it (after a refresh or a handshake)
\* load    how load_credentials_for ended: "none" (not called), "ok" (it
\*         returned credentials) or "failed" (it raised)
\* oauths  number of executions of _oauth_once_with_session started
\* ran     the plugins whose run was called, in order
\* failed_keep  the run of a plugin with keep_open_after_run raised
NewTask ==
    [pc |-> "queued", proc |-> "none", sess |-> FALSE, closes |-> 0,
     attempt |-> 0, keep_open |-> FALSE, pi |-> 1, outcome |-> "none",
     token |-> "unread", load |-> "none", oauths |-> 0, ran |-> << >>,
     failed_keep |-> FALSE]

Busy == {t \in Tasks : task[t].pc \notin {"queued", "done"}}

LiveProcs == {t \in Tasks : task[t].proc = "running"}

LiveSessions == {t \in LiveProcs : task[t].sess}

InitOrch ==
    /\ phase = "idle"
    /\ accounts \in SeqsUpTo(Emails, MaxAccounts)
    /\ enabled \in EnabledLists
    /\ maxConcurrent \in 1..MaxPool
    /\ task = << >>
    /\ summaries = 0
    /\ reported = 0
    /\ shared_search_term = 0

\* no login in progress
IdleOAuth ==
    /\ flowPc = "idle"
    /\ attempt = 0
    /\ results = << >>
    /\ listener = << >>
    /\ delivered = 0

\* no session being started or closed
IdleSess ==
    /\ installs = {}
    /\ sPc = "idle"
    /\ proc = "none"
    /\ endpoint = "down"
    /\ wsId = 0
    /\ steps = << >>
    /\ closeCalls = 0

\* no message taken by a wait loop
NoTaken == [msg |-> [hasId |-> FALSE, id |-> 0, method |-> "none", re |-> 0], for |-> 0]

\* cdp_navigate has not returned
NoRet == [ok |-> "none", by |-> NoTaken.msg]

\* no CDP connection open
IdleCdp ==
    /\ ckind = "none"
    /\ cpc = "idle"
    /\ counter = 0
    /\ clock = 0
    /\ ticks = 0
    /\ sent = << >>
    /\ inbox = << >>
    /\ answered = {}
    /\ events = 0
    /\ awaiting = 0
    /\ taken = NoTaken
    /\ dropped = {}
    /\ polls = 0
    /\ ret = NoRet

\* the workers whose port use is followed
PortWorkers == 1..MaxPool

Ports == 1..MaxPorts

\* a worker that has not asked for a port yet
\* pc         "idle", "launch", "session", "bind", "waiting", "redirected",
\*            "done", "failed", "released"
\* cport      the port start_chrome_session obtained (0: none yet)
\* chrome     "none" or "live": the browser process of the worker
\* debugBound the browser holds the listening socket of its debugging port
\* oport      the port _oauth_once_with_session obtained (0: none yet)
\* listening  the callback server of the worker holds a listening socket
\* recorded   the workers whose callback was written into this flow's state
NewPortWorker ==
    [pc |-> "idle", cport |-> 0, chrome |-> "none", debugBound |-> FALSE,
     oport |-> 0, listening |-> FALSE, recorded |-> {}]

\* no worker has asked for a port
IdlePorts == pw = [w \in PortWorkers |-> NewPortWorker]

\* no path derived
IdlePaths ==
    /\ ids = << >>
    /\ dirs = << >>
    /\ store = << >>
    /\ loaded = << >>

Init == InitOrch /\ IdleOAuth /\ IdleSess /\ IdleCdp /\ IdlePorts /\ IdlePaths

\* close_chrome_session as seen by the pipeline: when it returns the process
\* has exited, or (terminate and kill both failed, or kill was sent without
\* waiting) it is still running.  A process that already exited stays exited.
CloseOutcomes(t) == IF task[t].proc = "running" THEN {"exited", "running"} ELSE {"exited"}

Closed(tk, t, result) ==
    [tk EXCEPT ![t].proc = result, ![t].closes = @ + 1]

\* a worker that returns after a failed service construction without
\* releasing its session
leak_on_service_error(exit, s, keep) ==
    CASE exit = "oauth_fatal" -> TRUE
      [] exit = "service_error" -> FALSE
      [] exit = "end" -> s /\ ~keep

\* the exits of _process_one_account behind the session's acquisition: does
\* the exit call close_chrome_session?  (s: a session was acquired, keep:
\* the value of keep_open)
\*   "oauth_fatal"    except Exception as e2: close_chrome_session(sess)
\*   "service_error"  if sess: close_chrome_session(sess)
\*   "end"            if sess: if keep_open: log ... else: close_chrome_session
release_on_exit(exit, s, keep) ==
    CASE exit = "oauth_fatal" -> TRUE
      [] exit = "service_error" -> s
      [] exit = "end" -> s /\ ~keep

\* the runs of account t after it leaves _process_one_account by an exit
ExitRun(t, exit, outcome) ==
    IF release_on_exit(exit, task[t].sess, task[t].keep_open)
    THEN {[Closed(task, t, result) EXCEPT
              ![t].pc = "done", ![t].attempt = 0, ![t].outcome = outcome] :
            result \in CloseOutcomes(t)}
    ELSE {[task EXCEPT ![t].pc = "done", ![t].attempt = 0, ![t].outcome = outcome]}

\* run_processing_parallel up to the submission of the futures
run_processing_parallel ==
    /\ phase = "idle"
    /\ IF accounts = << >>
       THEN /\ phase' = "finished"
            /\ task' = task
       ELSE /\ phase' = "running"
            /\ task' = [i \in 1..Len(accounts) |-> NewTask]
    /\ UNCHANGED <<accounts, enabled, maxConcurrent, summaries, reported,
                   shared_search_term, notOrch>>

\* a pool worker takes the next future from the FIFO work queue
Begin(t) ==
    /\ phase = "running"
    /\ task[t].pc = "queued"
    /\ \A u \in 1..(t - 1) : task[u].pc # "queued"
    /\ Cardinality(Busy) < maxConcurrent
    /\ task' = [task EXCEPT ![t].pc = IF requires_chrome THEN "start" ELSE "creds"]
    /\ UNCHANGED <<phase, accounts, enabled, maxConcurrent, summaries, reported,
                   shared_search_term, notOrch>>

\* a worker that goes on to the credentials whether it has a session or not
ignore_missing_session(got) == "creds"

\* if not sess: log "[SESSION][FATAL] ..."; return
after_start(got) == IF got THEN "creds" ELSE "done"

\* sess = start_chrome_session(email)
StartSession(t) ==
    /\ task[t].pc = "start"
    /\ \/ \* a session is returned
          task' = [task EXCEPT ![t].proc = "running", ![t].sess = TRUE,
                               ![t].pc = after_start(TRUE)]
       \/ \* chrome.exe not found, or Popen failed: nothing launched
          task' = [task EXCEPT ![t].pc = after_start(FALSE),
                               ![t].outcome = "no_session"]
       \/ \* endpoint or target never ready: terminate() was sent, not awaited
          \E result \in {"exited", "running"} :
             task' = [task EXCEPT ![t].proc = result, ![t].pc = after_start(FALSE),
                                  ![t].outcome = "no_session"]
       \/ \* websocket-client missing: RuntimeError leaves _process_one_account
          task' = [task EXCEPT ![t].pc = "done", ![t].outcome = "raised"]
    /\ UNCHANGED <<phase, accounts, enabled, maxConcurrent, summaries, reported,
                   shared_search_term, notOrch>>

\* the token file of an account as load_credentials_for finds it
\*   absent      no file
\*   unparsable  Credentials.from_authorized_user_file raises
\*   valid       creds.valid
\*   expired     creds.expired and creds.refresh_token
\*   stale       parsed, not valid, and not expired or without refresh token
Tokens == {"absent", "unparsable", "valid", "expired", "stale"}

\* how the refresh branch of load_credentials_for goes
\*   ok             creds.refresh and the rewrite of the file succeed
\*   refresh_error  creds.refresh raises
\*   open_error     open(tok, "w") raises
\*   write_error    f.write raises on the opened (emptied) file
RefreshOutcomes == {"ok", "refresh_error", "open_error", "write_error"}

\* a load that returns whatever credentials it could parse
load_any_parsed(tok, refresh) ==
    IF tok \in {"absent", "unparsable"} THEN "raise" ELSE "valid"

\* load_credentials_for: the credentials it returns ("valid", "refreshed") or
\* "raise"
load_credentials_for(tok, refresh) ==
    IF tok \in {"absent", "unparsable"} THEN "raise"
    ELSE IF tok = "valid" THEN "valid"
    ELSE IF tok = "expired" THEN (IF refresh = "ok" THEN "refreshed" ELSE "raise")
    ELSE "raise"

\* the token file after load_credentials_for: it is rewritten only inside
\* the refresh branch, after creds.refresh returned; open(tok, "w") empties
\* the file, so that a failing f.write leaves a file that does not parse
stored_after(tok, refresh) ==
    IF tok # "expired" THEN tok
    ELSE IF refresh = "ok" THEN "valid"
    ELSE IF refresh = "write_error" THEN "unparsable"
    ELSE tok

\* a worker that starts the handshake although the credentials were loaded
oauth_always(r, rc, sess) == IF rc /\ sess THEN "oauth" ELSE "build"

\* a worker that starts the handshake without looking for a session
oauth_without_session(r, rc, sess) == IF r # "raise" THEN "build" ELSE "oauth"

\* what follows load_credentials_for in _process_one_account: r is its
\* result, rc is requires_chrome, sess says whether a session is held
after_load(r, rc, sess) ==
    IF r # "raise" THEN "build"
    ELSE IF rc /\ sess THEN "oauth" ELSE "done"

\* creds = load_credentials_for(email), and the except branch up to the call
\* of oauth_first_login_in_session
LoadCreds(t) ==
    /\ task[t].pc = "creds"
    /\ \E tok \in Tokens, refresh \in RefreshOutcomes :
          LET r == load_credentials_for(tok, refresh)
              next == after_load(r, requires_chrome, task[t].sess)
          IN task' = [task EXCEPT
                         ![t].token = stored_after(tok, refresh),
                         ![t].load = IF r = "raise" THEN "failed" ELSE "ok",
                         ![t].pc = next,
                         ![t].attempt = IF next = "oauth" THEN 1 ELSE @,
                         ![t].oauths = IF next = "oauth" THEN 1 ELSE @,
                         ![t].outcome = IF next = "done" THEN "no_token" ELSE @]
    /\ UNCHANGED <<phase, accounts, enabled, maxConcurrent, summaries, reported,
                   shared_search_term, notOrch>>

\* a retry wrapper that retries after every failure but the third
oauth_retry_again(n, ok) ==
    IF ok THEN "return" ELSE IF n <= 2 THEN "retry" ELSE "raise"

\* a login that gives up after the first failed execution
oauth_no_retry(n, ok) == IF ok THEN "return" ELSE "raise"

\* oauth_first_login_in_session: what follows the n-th execution of
\* _oauth_once_with_session, which returned (ok) or raised
oauth_first_login_in_session(n, ok) ==
    IF ok THEN "return" ELSE IF n = 1 THEN "retry" ELSE "raise"

\* one execution of _oauth_once_with_session inside oauth_first_login_in_session
OAuthAttempt(t) ==
    /\ task[t].pc = "oauth"
    /\ \E ok \in BOOLEAN :
          LET next == oauth_first_login_in_session(task[t].attempt, ok)
          IN \/ \* the token file is written before the credentials are returned
                /\ next = "return"
                /\ task' = [task EXCEPT ![t].pc = "build", ![t].attempt = 0,
                                        ![t].token = "valid"]
             \/ /\ next = "retry"
                /\ task' = [task EXCEPT ![t].attempt = @ + 1, ![t].oauths = @ + 1]
             \/ \* except Exception as e2: close_chrome_session(sess); return
                /\ next = "raise"
                /\ task' \in ExitRun(t, "oauth_fatal", "oauth_fatal")
    /\ UNCHANGED <<phase, accounts, enabled, maxConcurrent, summaries, reported,
                   shared_search_term, notOrch>>

\* gmail_service = build_gmail_service(creds); people_service never aborts
BuildService(t) ==
    /\ task[t].pc = "build"
    /\ \/ task' = [task EXCEPT ![t].pc = "plugins"]
       \/ \* except Exception: if sess: close_chrome_session(sess); return
          task' \in ExitRun(t, "service_error", "service_error")
    /\ UNCHANGED <<phase, accounts, enabled, maxConcurrent, summaries, reported,
                   shared_search_term, notOrch>>

\* a loop that walks the enabled plugins from the last to the first
plugin_from_end(en, i) == en[Len(en) + 1 - i]

\* for p in plugins: the plugin of the i-th iteration
plugin_at(en, i) == en[i]

\* a loop that is left when a plugin raises
abort_after_failure(i, n) == n + 1

\* except Exception as e: log "[ERROR] Plugin ... failed"; the loop goes on
\* with the next plugin (n plugins are enabled, the i-th raised)
after_failure(i, n) == i + 1

\* a loop that takes the keep-open request of a plugin whose run raised
keep_open_requested(keep, p, raised) == keep \/ keep_open_after_run(p)

\* keep_open = keep_open or getattr(p, "keep_open_after_run", False): the
\* statement follows p.run(ctx) inside the try, so that it is skipped when
\* run raised
keep_open_update(keep, p, raised) ==
    IF raised THEN keep ELSE keep \/ keep_open_after_run(p)

\* one iteration of "for p in plugins": p.run(ctx), then keep_open is updated
\* unless run raised
RunPlugin(t) ==
    /\ task[t].pc = "plugins"
    /\ task[t].pi <= Len(enabled)
    /\ LET p == plugin_at(enabled, task[t].pi)
           called == Append(task[t].ran, p)
       IN \/ \* p.run raised: logged, keep_open untouched
             /\ task' = [task EXCEPT ![t].ran = called,
                             ![t].pi = after_failure(@, Len(enabled)),
                             ![t].keep_open = keep_open_update(@, p, TRUE),
                             ![t].failed_keep = @ \/ keep_open_after_run(p)]
             /\ UNCHANGED shared_search_term
          \/ \* p.run returned; PlayShortsPlugin.run got past its early returns
             \* and called close_chrome_session(sess) itself
             /\ p = "play_shorts" /\ task[t].sess
             /\ \E result \in CloseOutcomes(t) :
                   task' = [Closed(task, t, result) EXCEPT ![t].ran = called,
                               ![t].pi = @ + 1,
                               ![t].keep_open = keep_open_update(@, p, FALSE)]
             /\ UNCHANGED shared_search_term
          \/ \* p.run returned without touching the session's process;
             \* SearchFilterPlugin.run assigned app.shared_search_term
             /\ task' = [task EXCEPT ![t].ran = called, ![t].pi = @ + 1,
                             ![t].keep_open = keep_open_update(@, p, FALSE)]
             /\ shared_search_term' =
                   IF p = "search_filter" THEN t ELSE shared_search_term
    /\ UNCHANGED <<phase, accounts, enabled, maxConcurrent, summaries, reported,
                   notOrch>>

\* the end of _process_one_account: release the session unless keep_open
Finish(t) ==
    /\ task[t].pc = "plugins"
    /\ task[t].pi > Len(enabled)
    /\ task' \in ExitRun(t, "end", IF ~task[t].sess THEN "no_chrome"
                                   ELSE IF task[t].keep_open THEN "kept_open"
                                   ELSE "closed")
    /\ UNCHANGED <<phase, accounts, enabled, maxConcurrent, summaries, reported,
                   shared_search_term, notOrch>>

\* update_term, bound to <KeyRelease> of the search entry: the user types
\* and the handler assigns app.shared_search_term
update_term ==
    /\ shared_search_term # 0
    /\ shared_search_term' = 0
    /\ UNCHANGED <<phase, accounts, enabled, maxConcurrent, task, summaries,
                   reported, notOrch>>

\* a summary that is logged as soon as one future is done
some_future_done == \E t \in Tasks : task[t].pc = "done"

\* for f in as_completed(futures) and the exit of the with-block
\* (executor.shutdown(wait=True)): every future is done
futures_done == \A t \in Tasks : task[t].pc = "done"

\* the executor's with-block ends when every future is done; the summary follows
Summary ==
    /\ phase = "running"
    /\ futures_done
    /\ phase' = "finished"
    /\ summaries' = summaries + 1
    /\ reported' = Len(accounts)
    /\ UNCHANGED <<accounts, enabled, maxConcurrent, task, shared_search_term, notOrch>>

Next ==
    \/ run_processing_parallel
    \/ \E t \in Tasks : Begin(t)
    \/ \E t \in Tasks : StartSession(t)
    \/ \E t \in Tasks : LoadCreds(t)
    \/ \E t \in Tasks : OAuthAttempt(t)
    \/ \E t \in Tasks : BuildService(t)
    \/ \E t \in Tasks : RunPlugin(t)
    \/ \E t \in Tasks : Finish(t)
    \/ Summary
    \/ update_term

Spec == Init /\ [][Next]_vars

(* ------------------------------ deadlines ------------------------------- *)
\* a wait whose deadline never comes
no_deadline(wait) == -1

\* the seconds after which each blocking wait gives up
\*   endpoint  _wait_for_debug_endpoint(port, timeout=12)
\*   targets   the loop around _create_new_tab_and_get_ws
\*   event     the recv loop of cdp_navigate (timeout=12 by default)
\*   callback  the callback wait of _oauth_once_with_session
\*   exit      sess.proc.wait(timeout=6.0)
\*   exit2     sess.proc.wait(timeout=2.0)
deadline(wait) ==
    CASE wait = "endpoint" -> 12
      [] wait = "targets" -> 10
      [] wait = "event" -> 12
      [] wait = "callback" -> 600
      [] wait = "exit" -> 6
      [] OTHER -> 2

\* the deadline of the wait is reached after finitely many seconds
Elapses(wait) == deadline(wait) \in Nat

(* ------------------------- OAuth loopback flow -------------------------- *)
\* the pipeline at rest, while another subsystem is explored
IdleOrch ==
    /\ phase = "idle"
    /\ accounts = << >>
    /\ enabled = Registry
    /\ maxConcurrent = 1
    /\ task = << >>
    /\ summaries = 0
    /\ reported = 0
    /\ shared_search_term = 0

\* GET requests that may reach a callback listener: the path and the code
\* and error parameters of the query string ("none" when absent)
Paths == {"/", "/callback", "/other"}

Requests == [path : Paths, code : {"none", "c1"}, error : {"none", "denied"}]

\* server = _ThreadedServer(...); server.shared = local_shared = {}
\* serving          serve_forever still accepts connections
\* bound            the listening socket exists
\* shutdownPending  a handler started the server.shutdown thread
\* handlers         accepted requests whose handler thread has not run yet
\* writes           the keys assigned in shared, in order
\* served           the number of requests to / or /callback answered
\* both             a request with a code and an error was handled
\* ready            the readiness probe of the flow connected to the port
\* navigated        cdp_navigate to the authorization URL: "no" (not called
\*                  yet), "ok" (returned True) or "failed" (returned False)
NewListener ==
    [serving |-> TRUE, bound |-> TRUE, shutdownPending |-> FALSE, handlers |-> {},
     shared |-> [code |-> "none", error |-> "none"], writes |-> << >>,
     served |-> 0, both |-> FALSE, ready |-> FALSE, navigated |-> "no"]

\* an execution that has not created its server (yet)
NoListener ==
    [serving |-> FALSE, bound |-> FALSE, shutdownPending |-> FALSE, handlers |-> {},
     shared |-> [code |-> "none", error |-> "none"], writes |-> << >>,
     served |-> 0, both |-> FALSE, ready |-> FALSE, navigated |-> "no"]

InitOAuth ==
    /\ flowPc = "begin"
    /\ attempt = 1
    /\ results = << >>
    /\ listener = << >>
    /\ delivered = 0

\* the current execution of _oauth_once_with_session ends: it returned
\* (kind = "ok") or raised; oauth_first_login_in_session decides what follows
AttemptEnds(kind) ==
    LET next == oauth_first_login_in_session(attempt, kind = "ok")
    IN /\ results' = Append(results, kind)
       /\ flowPc' = CASE next = "return" -> "returned"
                       [] next = "retry" -> "begin"
                       [] OTHER -> "raised"
       /\ attempt' = IF next = "retry" THEN attempt + 1 ELSE attempt

\* an execution that drives the browser before it has a server
navigate_before_serve == <<"navigate", "serve", "probe", "waiting">>

\* the order of _oauth_once_with_session after the port was found: the
\* server is created and started, the port is probed until it accepts a
\* connection, Chrome is navigated, the callback is waited for
oauth_once_order == <<"serve", "probe", "navigate", "waiting">>

\* the position that follows a position of the execution
StepAfter(step) ==
    LET i == CHOOSE n \in 1..Len(oauth_once_order) : oauth_once_order[n] = step
    IN oauth_once_order[i + 1]

\* the positions of a running execution
AttemptPcs == {"begin", "serve", "probe", "navigate", "waiting"}

\* _oauth_once_with_session up to the creation of the server:
\* credentials.json is checked, a port found, the flow object built
BeginAttempt ==
    /\ flowPc = "begin"
    /\ listener' = Append(listener, NoListener)
    /\ \/ \* FileNotFoundError, or the client secrets cannot be read
          AttemptEnds("setup_error")
       \/ /\ flowPc' = oauth_once_order[1]
          /\ UNCHANGED <<attempt, results>>
    /\ UNCHANGED <<delivered, notOAuth>>

\* server = _ThreadedServer(("127.0.0.1", port), _OAuthHandler) and the
\* serve_forever thread; the constructor binds and listens, or raises
Serve ==
    /\ flowPc = "serve"
    /\ \/ \* OSError: the port cannot be bound
          /\ AttemptEnds("setup_error")
          /\ listener' = listener
       \/ /\ listener' = [listener EXCEPT ![attempt] =
                              [NewListener EXCEPT !.navigated = listener[attempt].navigated]]
          /\ flowPc' = StepAfter("serve")
          /\ UNCHANGED <<attempt, results>>
    /\ UNCHANGED <<delivered, notOAuth>>

\* the 3 s loop of socket.create_connection on the port: it connects when
\* a socket listens there; otherwise RuntimeError "failed to start"
Probe ==
    /\ flowPc = "probe"
    /\ IF listener[attempt].bound
       THEN /\ listener' = [listener EXCEPT ![attempt].ready = TRUE]
            /\ flowPc' = StepAfter("probe")
            /\ UNCHANGED <<attempt, results>>
       ELSE /\ AttemptEnds("setup_error")
            /\ listener' = listener
    /\ UNCHANGED <<delivered, notOAuth>>

\* an execution that gives up when the navigation failed
navigate_must_succeed(ok) == IF ok THEN StepAfter("navigate") ELSE "raise"

\* what follows cdp_navigate(sess.ws_url, auth_url, wait_load=False): its
\* return value is not looked at
after_navigate(ok) == StepAfter("navigate")

\* cdp_navigate(sess.ws_url, auth_url, wait_load=False): it returns True,
\* or False when the connection or a send failed; it does not raise
Navigate ==
    /\ flowPc = "navigate"
    /\ \E ok \in BOOLEAN :
          /\ listener' = [listener EXCEPT ![attempt].navigated =
                                             IF ok THEN "ok" ELSE "failed"]
          /\ IF after_navigate(ok) = "raise"
             THEN AttemptEnds("setup_error")
             ELSE /\ flowPc' = after_navigate(ok)
                  /\ UNCHANGED <<attempt, results>>
    /\ UNCHANGED <<delivered, notOAuth>>

\* a client connects to a listener and serve_forever accepts the request
Deliver(k, req) ==
    /\ listener[k].serving
    /\ delivered < MaxRequests
    /\ delivered' = delivered + 1
    /\ listener' = [listener EXCEPT ![k].handlers = @ \cup {req}]
    /\ UNCHANGED <<flowPc, attempt, results, notOAuth>>

\* a handler without the path check: every path is taken for the callback
any_path_is_callback(req) ==
    IF req.error # "none" THEN "error"
    ELSE IF req.code # "none" THEN "code"
    ELSE "no_code"

\* a handler that looks at the code parameter first
code_before_error(req) ==
    IF req.path \notin {"/", "/callback"} THEN "404"
    ELSE IF req.code # "none" THEN "code"
    ELSE IF req.error # "none" THEN "error"
    ELSE "no_code"

\* the branch _OAuthHandler.do_GET takes for a request: the path is checked
\* first, then the error parameter, then the code parameter
do_GET_branch(req) ==
    IF req.path \notin {"/", "/callback"} THEN "404"
    ELSE IF req.error # "none" THEN "error"
    ELSE IF req.code # "none" THEN "code"
    ELSE "no_code"

\* _OAuthHandler.do_GET, run by the handler thread of one accepted request
do_GET(k, req) ==
    /\ req \in listener[k].handlers
    /\ LET branch == do_GET_branch(req)
       IN CASE branch = "404" ->
                 \* send_error(404); return
                 listener' = [listener EXCEPT ![k].handlers = @ \ {req}]
            [] branch = "error" ->
                 listener' = [listener EXCEPT ![k].handlers = @ \ {req},
                                              ![k].both = @ \/ req.code # "none",
                                              ![k].shared.error = req.error,
                                              ![k].writes = Append(@, "error"),
                                              ![k].served = @ + 1,
                                              ![k].shutdownPending = TRUE]
            [] branch = "code" ->
                 listener' = [listener EXCEPT ![k].handlers = @ \ {req},
                                              ![k].shared.code = req.code,
                                              ![k].writes = Append(@, "code"),
                                              ![k].served = @ + 1,
                                              ![k].shutdownPending = TRUE]
            [] OTHER ->
                 \* "No authorization code received."
                 listener' = [listener EXCEPT ![k].handlers = @ \ {req},
                                              ![k].served = @ + 1,
                                              ![k].shutdownPending = TRUE]
    /\ UNCHANGED <<flowPc, attempt, results, delivered, notOAuth>>

\* the thread started by do_GET runs server.shutdown(): serve_forever stops
\* accepting; the listening socket is never closed
shutdown(k) ==
    /\ listener[k].shutdownPending
    /\ listener[k].serving
    /\ listener' = [listener EXCEPT ![k].serving = FALSE]
    /\ UNCHANGED <<flowPc, attempt, results, delivered, notOAuth>>

\* one iteration of the callback wait that finds something in local_shared:
\* "code" is looked up first, then "error"
Poll ==
    /\ flowPc = "waiting"
    /\ LET shared == listener[attempt].shared
       IN IF shared.code # "none"
          THEN \* flow.fetch_token(code=...), then the token file is written
               \/ AttemptEnds("ok")
               \/ AttemptEnds("token_error")
          ELSE /\ shared.error # "none"
               /\ AttemptEnds("error")
    /\ UNCHANGED <<listener, delivered, notOAuth>>

\* the deadline passes during a sleep of the wait loop: TimeoutError
Timeout ==
    /\ flowPc = "waiting"
    /\ Elapses("callback")
    /\ AttemptEnds("timeout")
    /\ UNCHANGED <<listener, delivered, notOAuth>>

NextOAuth ==
    \/ BeginAttempt
    \/ Serve
    \/ Probe
    \/ Navigate
    \/ \E k \in 1..Len(listener), req \in Requests : Deliver(k, req)
    \/ \E k \in 1..Len(listener), req \in Requests : do_GET(k, req)
    \/ \E k \in 1..Len(listener) : shutdown(k)
    \/ Poll
    \/ Timeout

InitOAuthSpec ==
    IdleOrch /\ InitOAuth /\ IdleSess /\ IdleCdp /\ IdlePorts /\ IdlePaths

SpecOAuth == InitOAuthSpec /\ [][NextOAuth]_vars

(* ------------------------- Chrome session manager ----------------------- *)
InitSess ==
    /\ installs \in SUBSET {"clone", "fallback"}
    /\ sPc = "start"
    /\ proc = "none"
    /\ endpoint = "down"
    /\ wsId = 0
    /\ steps = << >>
    /\ closeCalls = 0

\* a search that looks into the shared install first
fallback_first ==
    IF "fallback" \in installs THEN "fallback"
    ELSE IF "clone" \in installs THEN "clone" ELSE "none"

\* exe = _find_chrome_executable(dest) or _find_chrome_executable(<shared install>)
_find_chrome_executable ==
    IF "clone" \in installs THEN "clone"
    ELSE IF "fallback" \in installs THEN "fallback" ELSE "none"

\* proc.terminate(): the call raises, or the signal is delivered and the
\* process starts to exit, or the signal is delivered to a process that does
\* not react to it.  A process that has exited is left as it is.
Terminated(p) ==
    IF p = "running" THEN {"running", "dying"} ELSE {p}

\* proc.kill(): the call raises (the process is left as it is), or the
\* process is killed and exits shortly after
Killed(p) ==
    IF p = "running" THEN {"running", "dying"} ELSE {p}

\* start_chrome_session up to subprocess.Popen
Launch ==
    /\ sPc = "start"
    /\ IF _find_chrome_executable = "none"
       THEN \* "[SESSION][ERROR] chrome.exe not found"; return None
            /\ sPc' = "failed"
            /\ UNCHANGED <<proc, steps>>
       ELSE \/ /\ sPc' = "wait_endpoint"
               /\ proc' = "running"
               /\ steps' = steps \o <<"exe:" \o _find_chrome_executable, "popen">>
            \/ \* Popen raised; return None
               /\ sPc' = "failed"
               /\ proc' = proc
               /\ steps' = Append(steps, "exe:" \o _find_chrome_executable)
    /\ UNCHANGED <<installs, endpoint, wsId, closeCalls, notSess>>

\* the browser brings its debug endpoint up
EndpointUp ==
    /\ proc = "running"
    /\ endpoint = "down"
    /\ endpoint' = "up"
    /\ UNCHANGED <<installs, sPc, proc, wsId, steps, closeCalls, notSess>>

\* a process that was told to exit (or killed) exits; its port is released
ProcExits ==
    /\ proc = "dying"
    /\ proc' = "exited"
    /\ endpoint' = "down"
    /\ UNCHANGED <<installs, sPc, wsId, steps, closeCalls, notSess>>

\* the browser honours window.close() / Browser.close received on the socket
BrowserCloses ==
    /\ proc = "running"
    /\ \E i \in 1..Len(steps) :
          steps[i] \in {"send:Runtime.evaluate", "send:Browser.close"}
    /\ proc' = "dying"
    /\ UNCHANGED <<installs, sPc, endpoint, wsId, steps, closeCalls, notSess>>

\* if not _wait_for_debug_endpoint(port, timeout=12): terminate, return None
WaitEndpoint ==
    /\ sPc = "wait_endpoint"
    /\ IF endpoint = "up"
       THEN /\ sPc' = "discover"
            /\ UNCHANGED <<proc, steps>>
       ELSE \* no 200 before the deadline
            /\ Elapses("endpoint")
            /\ sPc' = "failed"
            /\ steps' = Append(steps, "terminate")
            /\ proc' \in Terminated(proc)
    /\ UNCHANGED <<installs, endpoint, wsId, closeCalls, notSess>>

\* the 10 s loop around _create_new_tab_and_get_ws
Discover ==
    /\ sPc = "discover"
    /\ \/ \* a webSocketDebuggerUrl was obtained: the session is returned
          /\ endpoint = "up"
          /\ sPc' = "ready"
          /\ UNCHANGED <<proc, steps>>
       \/ \* no target within the window: terminate, return None
          /\ Elapses("targets")
          /\ sPc' = "failed"
          /\ steps' = Append(steps, "terminate")
          /\ proc' \in Terminated(proc)
    /\ UNCHANGED <<installs, endpoint, wsId, closeCalls, notSess>>

\* a close_chrome_session without any try/except: every exception leaves it
no_handler(site) == "raised"

\* the try/except blocks of close_chrome_session: where it goes on after an
\* exception raised at a site ("raised" would be an exception that leaves
\* the function)
handler(site) ==
    CASE site \in {"lookup", "connect", "browser_close"} -> "c_wait"
      [] site \in {"enable", "evaluate"} -> "c_flush"
      [] site = "wait6" -> "c_terminate"
      [] site \in {"terminate", "wait2"} -> "c_kill"
      [] OTHER -> "closed"

\* a graceful close that sends Browser.close right after window.close()
skip_flush == "c_browser_close"

\* what follows send("Runtime.evaluate", window.close()): the flush sleep
after_window_close == "c_flush"

\* a wait that reports a timeout whatever the process did
wait_times_out(p, site) == handler(site)

\* sess.proc.wait(timeout=...): it returns when the process has exited, and
\* close_chrome_session is over; otherwise it raises TimeoutExpired
exit_wait(p, site) == IF p = "exited" THEN "closed" ELSE handler(site)

\* close_chrome_session(sess) is called; step 1 asks /json/version for the
\* browser websocket
CloseBegin ==
    /\ sPc \in {"ready", "closed"}
    /\ closeCalls < MaxCloses
    /\ closeCalls' = closeCalls + 1
    /\ \/ /\ endpoint = "up"
          /\ sPc' = "c_connect"
       \/ \* the request failed, or no websocket debugger: "using process
          \* terminate fallback"
          sPc' = handler("lookup")
    /\ wsId' = 0
    /\ steps' = Append(steps, "close")
    /\ UNCHANGED <<installs, proc, endpoint, notSess>>

\* ws = websocket.create_connection(ws_main, timeout=5); _id = 1
CloseConnect ==
    /\ sPc = "c_connect"
    /\ \/ /\ endpoint = "up"
          /\ sPc' = "c_enable"
          /\ wsId' = 1
       \/ \* "websocket graceful close failed"
          /\ sPc' = handler("connect")
          /\ wsId' = wsId
    /\ UNCHANGED <<installs, proc, endpoint, steps, closeCalls, notSess>>

\* the send closure: _id += 1, then ws.send; wsOk is FALSE when ws.send raised
CloseSend(method, wsOk) ==
    /\ wsId' = wsId + 1
    /\ steps' = IF wsOk THEN Append(steps, "send:" \o method) ELSE steps

\* send("Runtime.enable"); a failure skips the evaluate
CloseEnable ==
    /\ sPc = "c_enable"
    /\ \E wsOk \in BOOLEAN :
          /\ CloseSend("Runtime.enable", wsOk)
          /\ sPc' = IF wsOk THEN "c_evaluate" ELSE handler("enable")
    /\ UNCHANGED <<installs, proc, endpoint, closeCalls, notSess>>

\* send("Runtime.evaluate", {"expression": "window.close()"})
CloseEvaluate ==
    /\ sPc = "c_evaluate"
    /\ \E wsOk \in BOOLEAN :
          /\ CloseSend("Runtime.evaluate", wsOk)
          /\ sPc' = IF wsOk THEN after_window_close ELSE handler("evaluate")
    /\ UNCHANGED <<installs, proc, endpoint, closeCalls, notSess>>

\* time.sleep(wait_timeout)
CloseFlush ==
    /\ sPc = "c_flush"
    /\ sPc' = "c_browser_close"
    /\ steps' = Append(steps, "flush")
    /\ UNCHANGED <<installs, proc, endpoint, wsId, closeCalls, notSess>>

\* send("Browser.close"); ws.close()
CloseBrowserClose ==
    /\ sPc = "c_browser_close"
    /\ \E wsOk \in BOOLEAN :
          /\ CloseSend("Browser.close", wsOk)
          /\ sPc' = IF wsOk THEN "c_wait" ELSE handler("browser_close")
    /\ UNCHANGED <<installs, proc, endpoint, closeCalls, notSess>>

\* step 3: sess.proc.wait(timeout=6.0)
CloseWait ==
    /\ sPc = "c_wait"
    /\ proc = "exited" \/ Elapses("exit")
    /\ steps' = Append(steps, "wait6")
    /\ sPc' = exit_wait(proc, "wait6")
    /\ UNCHANGED <<installs, proc, endpoint, wsId, closeCalls, notSess>>

\* step 4: sess.proc.terminate(); an exception leads to kill()
CloseTerminate ==
    /\ sPc = "c_terminate"
    /\ steps' = Append(steps, "terminate")
    /\ \/ /\ proc' \in Terminated(proc)
          /\ sPc' = "c_wait2"
       \/ \* terminate() raised
          /\ proc' = proc
          /\ sPc' = handler("terminate")
    /\ UNCHANGED <<installs, endpoint, wsId, closeCalls, notSess>>

\* sess.proc.wait(timeout=2.0); TimeoutExpired leads to kill()
CloseWait2 ==
    /\ sPc = "c_wait2"
    /\ proc = "exited" \/ Elapses("exit2")
    /\ steps' = Append(steps, "wait2")
    /\ sPc' = exit_wait(proc, "wait2")
    /\ UNCHANGED <<installs, proc, endpoint, wsId, closeCalls, notSess>>

\* sess.proc.kill(), not followed by a wait; an exception is logged
CloseKill ==
    /\ sPc = "c_kill"
    /\ steps' = Append(steps, "kill")
    /\ \E result \in Killed(proc) :
          /\ proc' = result
          /\ sPc' = IF proc = "running" /\ result = "running"
                    THEN handler("kill") ELSE "closed"
    /\ UNCHANGED <<installs, endpoint, wsId, closeCalls, notSess>>

NextSess ==
    \/ Launch
    \/ EndpointUp
    \/ ProcExits
    \/ BrowserCloses
    \/ WaitEndpoint
    \/ Discover
    \/ CloseBegin
    \/ CloseConnect
    \/ CloseEnable
    \/ CloseEvaluate
    \/ CloseFlush
    \/ CloseBrowserClose
    \/ CloseWait
    \/ CloseTerminate
    \/ CloseWait2
    \/ CloseKill

InitSessSpec ==
    IdleOrch /\ IdleOAuth /\ InitSess /\ IdleCdp /\ IdlePorts /\ IdlePaths

SpecSess == InitSessSpec /\ [][NextSess]_vars

(* ------------------------- CDP connections ----------------------------- *)
\* the functions that open a websocket to a target and send commands on it
\*   navigate, navigate_nowait  core/chrome.py cdp_navigate (wait_load or not)
\*   open_tab                   ClickLinksPlugin._open_tab_via_debug_http
\*   ready_state                ClickLinksPlugin._tab_ready_state
\*   video                      PlayShortsPlugin._wait_for_video_end
\*   activate, reset            _activate_window, PlayShortsPlugin._reset_player
\*   close                      core/chrome.py close_chrome_session
Kinds == {"navigate", "navigate_nowait", "open_tab", "ready_state", "video",
          "activate", "reset", "close"}

\* the commands a function sends before it starts to read
Script(kind) ==
    CASE kind \in {"navigate", "navigate_nowait"} -> <<"Page.enable", "Page.navigate">>
      [] kind = "open_tab" -> <<"Target.createTarget">>
      [] kind = "ready_state" -> <<"Runtime.enable", "Runtime.evaluate">>
      [] kind = "video" -> <<"Runtime.enable">>
      [] kind = "activate" -> <<"Page.bringToFront">>
      [] kind = "close" -> <<"Runtime.enable", "Runtime.evaluate", "Browser.close">>
      [] OTHER -> <<"Runtime.evaluate">>

\* functions whose ids come from _send_cdp_cmd
ClockKinds == {"video", "activate", "reset"}

\* functions that wait for the response to one of their requests
IdWaitKinds == {"open_tab", "ready_state", "video"}

\* _send_cdp_cmd: the id is the wall clock in ms modulo IdModulus
_send_cdp_cmd(now) == now % IdModulus

\* the value of the id counter before the first send
FirstCounter(kind) ==
    CASE kind \in {"open_tab", "ready_state"} -> FirstTabId
      [] kind = "close" -> 1
      [] OTHER -> 0

\* the id of the next request: cdp_navigate writes the ids 1 and 2, the
\* closures of click_links and of close_chrome_session increment a counter
\* before each send, the play_shorts functions call _send_cdp_cmd
NextId(kind) ==
    IF kind \in ClockKinds THEN _send_cdp_cmd(clock) ELSE counter + 1

\* a wait loop that accepts any response, whatever its id
id_matches_any(m, x) == m.hasId

\* msg.get("id") == call_id
id_matches(m, x) == m.hasId /\ m.id = x

\* the wall clock when a connection is opened: anywhere in a period of
\* IdModulus ms, in particular right before the ids wrap around
ClockStarts == {0, IdModulus - 1}

InitCdp ==
    /\ ckind \in Kinds
    /\ cpc = "connect"
    /\ counter = 0
    /\ clock \in ClockStarts
    /\ ticks = 0
    /\ sent = << >>
    /\ inbox = << >>
    /\ answered = {}
    /\ events = 0
    /\ awaiting = 0
    /\ taken = NoTaken
    /\ dropped = {}
    /\ polls = 0
    /\ ret = NoRet

\* ws = websocket.create_connection(ws_url, timeout=...)
Connect ==
    /\ cpc = "connect"
    /\ \/ /\ cpc' = "send"
          /\ counter' = FirstCounter(ckind)
          /\ ret' = ret
       \/ \* connect failed: the function returns (cdp_navigate: False)
          /\ cpc' = "failed"
          /\ counter' = counter
          /\ ret' = IF ckind \in {"navigate", "navigate_nowait"}
                    THEN [ret EXCEPT !.ok = "False"] ELSE ret
    /\ UNCHANGED <<ckind, clock, ticks, sent, inbox, answered, events, awaiting,
                   taken, dropped, polls, notCdp>>

\* a millisecond passes; the clock is read by _send_cdp_cmd only, so the
\* time that passes during a wait is counted when the wait is over
Tick ==
    /\ cpc = "send"
    /\ ticks < MaxTicks
    /\ ticks' = ticks + 1
    /\ clock' = clock + 1
    /\ UNCHANGED <<ckind, cpc, counter, sent, inbox, answered, events, awaiting,
                   taken, dropped, polls, ret, notCdp>>

\* the method the function sends next: its script, then, for the video
\* loop, one Runtime.evaluate per iteration
NextMethod ==
    IF Len(sent) < Len(Script(ckind)) THEN Script(ckind)[Len(sent) + 1]
    ELSE "Runtime.evaluate"

\* ws.send(json.dumps({"id": ..., "method": ...})); after the last command
\* the function reads (or returns, when it does not wait)
Send ==
    /\ cpc = "send"
    /\ LET id == NextId(ckind)
           last == Len(sent) + 1 >= Len(Script(ckind))
           loop == ckind = "video" /\ Len(sent) >= Len(Script(ckind))
       IN /\ sent' = Append(sent, [id |-> id, method |-> NextMethod])
          /\ counter' = IF ckind \in ClockKinds THEN counter ELSE counter + 1
          /\ awaiting' = IF ckind \in IdWaitKinds THEN id ELSE awaiting
          /\ polls' = IF loop THEN polls + 1 ELSE polls
          /\ cpc' = IF ckind = "video" THEN (IF loop THEN "wait" ELSE "send")
                    ELSE IF ~last THEN "send"
                    ELSE IF ckind \in {"navigate", "open_tab", "ready_state"} THEN "wait"
                    ELSE "done"
          \* cdp_navigate without wait_load: ok = True
          /\ ret' = IF ckind = "navigate_nowait" /\ last
                    THEN [ret EXCEPT !.ok = "True"] ELSE ret
    /\ (ckind = "video" /\ Len(sent) >= Len(Script(ckind))) => polls < MaxPolls
    /\ UNCHANGED <<ckind, clock, ticks, inbox, answered, events, taken, dropped, notCdp>>

\* the browser answers a request of this connection
Respond(i) ==
    /\ cpc \in {"send", "wait"}
    /\ i \notin answered
    /\ answered' = answered \cup {i}
    /\ inbox' = Append(inbox, [hasId |-> TRUE, id |-> sent[i].id, method |-> "none", re |-> i])
    /\ UNCHANGED <<ckind, cpc, counter, clock, ticks, sent, events, awaiting,
                   taken, dropped, polls, ret, notCdp>>

EventNames == {"Page.loadEventFired", "Runtime.executionContextCreated"}

\* the requests of this connection an event e can be the effect of: the
\* load event of the page, of a Page.navigate already sent; 0 stands for
\* something that began before the connection sent anything, such as the
\* load of the page the tab was on
Causes(e) ==
    {0} \cup {i \in 1..Len(sent) : /\ e = "Page.loadEventFired"
                                    /\ sent[i].method = "Page.navigate"}

\* the browser sends an event (a message without id)
Event(e) ==
    /\ cpc \in {"send", "wait"}
    /\ Len(sent) > 0
    /\ events < MaxEvents
    /\ events' = events + 1
    /\ \E cause \in Causes(e) :
          inbox' = Append(inbox, [hasId |-> FALSE, id |-> 0, method |-> e,
                                  re |-> cause])
    /\ UNCHANGED <<ckind, cpc, counter, clock, ticks, sent, answered, awaiting,
                   taken, dropped, polls, ret, notCdp>>

\* what the video loop does after an iteration: poll again, or stop because
\* the video ended or the 40 s are over
AfterPoll == IF polls < MaxPolls THEN {"send", "done"} ELSE {"done"}

\* one ws.recv() of a wait loop and the test made on the message
Recv ==
    /\ cpc = "wait"
    /\ inbox # << >>
    /\ inbox' = Tail(inbox)
    /\ LET m == Head(inbox)
       IN IF ckind = "navigate"
          THEN \* if m.get("method") == "Page.loadEventFired": ok = True; break
               /\ cpc' = IF m.method = "Page.loadEventFired" THEN "done" ELSE "wait"
               /\ dropped' = IF m.method = "Page.loadEventFired" THEN dropped
                             ELSE dropped \cup {IF m.hasId THEN "response" ELSE "event"}
               /\ taken' = taken
               /\ ret' = IF m.method = "Page.loadEventFired"
                         THEN [ok |-> "True", by |-> m] ELSE ret
          ELSE IF id_matches(m, awaiting)
          THEN /\ taken' = [msg |-> m, for |-> awaiting]
               /\ dropped' = dropped
               /\ cpc' \in (IF ckind = "video" THEN AfterPoll ELSE {"done"})
               /\ ret' = ret
          ELSE \* any other message is read and dropped
               /\ taken' = taken
               /\ dropped' = dropped \cup {IF m.hasId THEN "response" ELSE "event"}
               /\ cpc' = "wait"
               /\ ret' = ret
    /\ UNCHANGED <<ckind, counter, clock, ticks, sent, answered, events, awaiting,
                   polls, notCdp>>

\* the deadline of a wait loop passes (or, in the video loop, recv raises)
WaitTimeout ==
    /\ cpc = "wait"
    /\ Elapses("event")
    /\ cpc' \in (IF ckind = "video" THEN AfterPoll ELSE {"done"})
    \* cdp_navigate: the loop ends with ok still False
    /\ ret' = IF ckind = "navigate" THEN [ret EXCEPT !.ok = "False"] ELSE ret
    /\ UNCHANGED <<ckind, counter, clock, ticks, sent, inbox, answered, events,
                   awaiting, taken, dropped, polls, notCdp>>

NextCdp ==
    \/ Connect
    \/ Tick
    \/ Send
    \/ \E i \in 1..Len(sent) : Respond(i)
    \/ \E e \in EventNames : Event(e)
    \/ Recv
    \/ WaitTimeout

InitCdpSpec ==
    IdleOrch /\ IdleOAuth /\ IdleSess /\ InitCdp /\ IdlePorts /\ IdlePaths

SpecCdp == InitCdpSpec /\ [][NextCdp]_vars

(* ------------------------- port allocation ------------------------------ *)
\* a listening socket exists on port p: the debugging socket of a live
\* browser or the socket of a callback server (which is never closed)
Bound(p) ==
    \E w \in PortWorkers :
       \/ pw[w].chrome = "live" /\ pw[w].debugBound /\ pw[w].cport = p
       \/ pw[w].listening /\ pw[w].oport = p

\* the ports bind(("127.0.0.1", 0)) may be given: those nobody listens on.
\* The probing socket is closed before the function returns.
FreePorts == {p \in Ports : ~Bound(p)}

\* core/chrome.py: bind an ephemeral port, read it, close the socket
_find_free_port_tcp == FreePorts

\* core/gmail_api.py: bind an ephemeral port, read it, close the socket
_find_free_port == FreePorts

\* _ThreadedServer(("127.0.0.1", port), ...): HTTPServer binds with
\* allow_reuse_address; on a port somebody listens on, the bind raises
\* OSError or, where SO_REUSEADDR lets a second socket in, succeeds
server_bind(occupied) == IF occupied THEN {"bound", "error"} ELSE {"bound"}

\* start_chrome_session: port = _find_free_port_tcp()
PortStart(w) ==
    /\ pw[w].pc = "idle"
    /\ \E p \in _find_free_port_tcp :
          pw' = [pw EXCEPT ![w].cport = p, ![w].pc = "launch"]
    /\ UNCHANGED notPorts

\* start_chrome_session: Popen(... --remote-debugging-port=port ...), then
\* _wait_for_debug_endpoint(port): the browser gets the port when nobody
\* listens on it; the wait succeeds when a browser answers on the port
PortLaunch(w) ==
    /\ pw[w].pc = "launch"
    /\ LET own == ~Bound(pw[w].cport)
           answers == \/ own
                      \/ \E v \in PortWorkers :
                            /\ pw[v].chrome = "live"
                            /\ pw[v].debugBound
                            /\ pw[v].cport = pw[w].cport
       IN IF answers
          THEN pw' = [pw EXCEPT ![w].chrome = "live", ![w].debugBound = own,
                                ![w].pc = "session"]
          ELSE \* "debug endpoint not ready": proc.terminate(); return None
               pw' = [pw EXCEPT ![w].pc = "failed"]
    /\ UNCHANGED notPorts

\* a token exists for the account: no authorization flow is run
PortFinish(w) ==
    /\ pw[w].pc = "session"
    /\ pw' = [pw EXCEPT ![w].pc = "done"]
    /\ UNCHANGED notPorts

\* _oauth_once_with_session: port = _find_free_port()
PortOAuth(w) ==
    /\ pw[w].pc = "session"
    /\ \E p \in _find_free_port :
          pw' = [pw EXCEPT ![w].oport = p, ![w].pc = "bind"]
    /\ UNCHANGED notPorts

\* _oauth_once_with_session: server = _ThreadedServer(("127.0.0.1", port), ...)
\* and serve_forever; an OSError ends the flow and the session is closed
PortBind(w) ==
    /\ pw[w].pc = "bind"
    /\ \E outcome \in server_bind(Bound(pw[w].oport)) :
          IF outcome = "bound"
          THEN pw' = [pw EXCEPT ![w].listening = TRUE, ![w].pc = "waiting"]
          ELSE pw' = [pw EXCEPT ![w].pc = "failed", ![w].chrome = "none",
                                ![w].debugBound = FALSE]
    /\ UNCHANGED notPorts

\* the browser of worker w is redirected to http://127.0.0.1:<oport>/callback;
\* a listener on that port accepts the request and records its code
PortCallback(w) ==
    /\ pw[w].pc = "waiting"
    /\ \E v \in PortWorkers :
          /\ pw[v].listening
          /\ pw[v].oport = pw[w].oport
          /\ pw' = [pw EXCEPT ![w].pc = "redirected",
                              ![v].recorded = @ \cup {w}]
    /\ UNCHANGED notPorts

\* the callback wait of worker w finds a code in its local_shared
PortPoll(w) ==
    /\ pw[w].pc \in {"waiting", "redirected"}
    /\ pw[w].recorded # {}
    /\ pw' = [pw EXCEPT ![w].pc = "done"]
    /\ UNCHANGED notPorts

\* the callback wait of worker w times out; the session is closed
PortTimeout(w) ==
    /\ pw[w].pc \in {"waiting", "redirected"}
    /\ pw' = [pw EXCEPT ![w].pc = "failed", ![w].chrome = "none",
                        ![w].debugBound = FALSE]
    /\ UNCHANGED notPorts

\* the account run ends: close_chrome_session; the callback server's socket
\* stays as it is
PortRelease(w) ==
    /\ pw[w].pc = "done"
    /\ pw' = [pw EXCEPT ![w].pc = "released", ![w].chrome = "none",
                        ![w].debugBound = FALSE]
    /\ UNCHANGED notPorts

NextPorts ==
    \/ \E w \in PortWorkers : PortStart(w)
    \/ \E w \in PortWorkers : PortLaunch(w)
    \/ \E w \in PortWorkers : PortFinish(w)
    \/ \E w \in PortWorkers : PortOAuth(w)
    \/ \E w \in PortWorkers : PortBind(w)
    \/ \E w \in PortWorkers : PortCallback(w)
    \/ \E w \in PortWorkers : PortPoll(w)
    \/ \E w \in PortWorkers : PortTimeout(w)
    \/ \E w \in PortWorkers : PortRelease(w)

InitPortsSpec ==
    IdleOrch /\ IdleOAuth /\ IdleSess /\ IdleCdp /\ IdlePorts /\ IdlePaths

SpecPorts == InitPortsSpec /\ [][NextPorts]_vars

(* ------------------------- path derivation ------------------------------ *)
\* the characters raw account identifiers are built from
IdChars == {"a", "A", ".", "_", "+"}

\* the raw account identifiers compared: non-empty lines
RawIds == SeqsUpTo(IdChars, MaxIdLen) \ {<< >>}

\* core/chrome.py: CHROMES_DIR / _safe_email_token(email)
cloned_install_dir_for(email) == <<"chromes">> \o _safe_email_token(email)

\* nothing derived yet for an identifier
NoDirs == [profile |-> << >>, install |-> << >>, token |-> << >>]

InitPaths ==
    /\ ids \in RawIds \X RawIds
    /\ dirs = <<NoDirs, NoDirs>>
    /\ store = << >>
    /\ loaded = << >>

\* profile_dir_for and cloned_install_dir_for are applied to identifier i
Derive(i) ==
    /\ i \in 1..Len(ids)
    /\ dirs[i] = NoDirs
    /\ dirs' = [dirs EXCEPT ![i] = [profile |-> profile_dir_for(ids[i]),
                                    install |-> cloned_install_dir_for(ids[i]),
                                    token |-> token_path_for(ids[i])]]
    /\ UNCHANGED <<ids, store, loaded, notPaths>>

NextPaths == \E i \in 1..2 : Derive(i)

InitPathsSpec ==
    IdleOrch /\ IdleOAuth /\ IdleSess /\ IdleCdp /\ IdlePorts /\ InitPaths

SpecPaths == InitPathsSpec /\ [][NextPaths]_vars

(* ------------------------- credential store ----------------------------- *)
\* the token paths of the identifiers
TokenPaths(e) == {token_path_for(e[i]) : i \in 1..Len(e)}

\* load_credentials_for not called yet for an identifier
NoLoad == [before |-> "none", refresh |-> "none", result |-> "none", after |-> "none"]

InitCreds ==
    /\ ids \in Emails \X Emails
    /\ dirs = << >>
    /\ store \in [TokenPaths(ids) -> Tokens]
    /\ loaded = <<NoLoad, NoLoad>>

\* load_credentials_for(ids[i]): before is the token file it finds, after the
\* file it leaves
Load(i) ==
    /\ i \in 1..Len(ids)
    /\ loaded[i] = NoLoad
    /\ LET tok == token_path_for(ids[i])
           before == store[tok]
       IN \E refresh \in (IF before = "expired" THEN RefreshOutcomes ELSE {"none"}) :
             /\ store' = [store EXCEPT ![tok] = stored_after(before, refresh)]
             /\ loaded' = [loaded EXCEPT ![i] =
                              [before |-> before, refresh |-> refresh,
                               result |-> load_credentials_for(before, refresh),
                               after |-> stored_after(before, refresh)]]
    /\ UNCHANGED <<ids, dirs, notPaths>>

NextCreds == \E i \in 1..2 : Load(i)

InitCredsSpec ==
    IdleOrch /\ IdleOAuth /\ IdleSess /\ IdleCdp /\ IdlePorts /\ InitCreds

SpecCreds == InitCredsSpec /\ [][NextCreds]_vars

(* ------------------------- pipeline: claims ----------------------------- *)
\* sessions returned by start_chrome_session on which close_chrome_session
\* has not been called yet
OpenSessions == {t \in Tasks : task[t].sess /\ task[t].closes = 0}

\* C1: with a pool smaller than the batch, the number of sessions started and
\* not yet closed never exceeds the pool size, whatever actions are enabled.
C1_LiveSessionsWithinPool ==
    maxConcurrent < Len(accounts) => Cardinality(OpenSessions) <= maxConcurrent

\* C2: no two live browser processes ever use the same profile directory.
C2_OneLiveProcessPerProfile ==
    \A t, u \in LiveProcs :
        t # u => profile_dir_for(accounts[t]) # profile_dir_for(accounts[u])

\* C5: within one account run _oauth_once_with_session is executed at most
\* twice, the second execution follows a failed first one, and when the
\* second fails the orchestrator closes the session and ends that account
\* only, leaving every other account's run as it was.
C5_OAuthRetriedAtMostOnce ==
    /\ [](\A t \in Tasks : task[t].attempt <= 2)
    /\ [][\A t \in Tasks :
            /\ (task'[t].attempt = 1 /\ task[t].attempt # 1) => task[t].pc = "creds"
            /\ (task'[t].attempt = 2 /\ task[t].attempt # 2) => task[t].attempt = 1
            /\ (task[t].attempt = 2 /\ task'[t].attempt # 2) =>
                  \/ task'[t].pc = "build"
                  \/ /\ task'[t].pc = "done"
                     /\ task'[t].outcome = "oauth_fatal"
                     /\ task'[t].closes = task[t].closes + 1
                     /\ \A u \in Tasks \ {t} : task'[u] = task[u]
                     /\ phase' = phase]_vars

\* C5 witness: one account was aborted after two failed authorization
\* attempts and its session closed, while another account ran to its end.
C5_Witness ==
    \E t, u \in Tasks :
        /\ task[t].pc = "done" /\ task[t].outcome = "oauth_fatal"
        /\ task[t].closes = 1
        /\ task[u].pc = "done" /\ task[u].outcome = "closed"

\* C8: when an executed action asked to keep the session open, then after
\* the account's run the session is live, was released by no one, and the
\* log says it was kept open.
C8_KeptOpenSessionStillLive ==
    \A t \in Tasks :
        (task[t].pc = "done" /\ task[t].keep_open) =>
            /\ task[t].proc = "running"
            /\ task[t].closes = 0
            /\ task[t].outcome = "kept_open"

\* the outcomes of a run that went through the plugin loop
LoopOutcomes == {"closed", "kept_open", "no_chrome"}

\* C11: an action that raises is caught at the action boundary: once the
\* loop has started every enabled action is called, the run ends in the
\* usual way (session closed, or kept open when an action that returned asked
\* for it), and a step of the loop changes no other account's run.
C11_ActionFailureIsContained ==
    /\ [](\A t \in Tasks :
            (task[t].pc = "done" /\ task[t].ran # << >>) =>
                /\ task[t].ran = enabled
                /\ task[t].outcome \in LoopOutcomes
                /\ task[t].outcome = "kept_open" => (task[t].sess /\ task[t].keep_open)
                /\ task[t].outcome = "closed" => (task[t].sess /\ task[t].closes >= 1)
                /\ task[t].outcome = "no_chrome" => ~task[t].sess)
    /\ [][\A t \in Tasks :
            task'[t].ran # task[t].ran =>
                /\ phase' = phase
                /\ \A u \in Tasks \ {t} : task'[u] = task[u]]_vars

\* C11 witness: OpenGmailUIPlugin.run was called and raised (keep_open was
\* not set), the actions after it were called, the session was closed, and
\* the other account of the batch completed its run.
C11_Witness ==
    /\ enabled = <<"search_filter", "open_gmail_ui", "unstar">>
    /\ \E t, u \in Tasks :
          /\ t # u
          /\ task[t].pc = "done" /\ task[t].ran = enabled
          /\ ~task[t].keep_open /\ task[t].outcome = "closed"
          /\ task[u].pc = "done" /\ task[u].outcome = "kept_open"

\* a step of the worker that processes account t
WorkerStep(t) ==
    \/ StartSession(t)
    \/ LoadCreds(t)
    \/ OAuthAttempt(t)
    \/ BuildService(t)
    \/ RunPlugin(t)
    \/ Finish(t)

\* C12: an account whose session could not be acquired ends at once: no
\* credential is loaded, no handshake started, no action called, nothing
\* closed.  That step changes no other account's run and does not end the
\* batch, and it blocks nobody: every worker in a run can take its next
\* step and the batch can always go on until the summary.
C12_FailedAcquisitionAbortsOneAccount ==
    /\ [](\A t \in Tasks :
            (requires_chrome /\ ~task[t].sess /\ task[t].pc \notin {"queued", "start"}) =>
                /\ task[t].pc = "done"
                /\ task[t].outcome \in {"no_session", "raised"}
                /\ task[t].load = "none" /\ task[t].token = "unread"
                /\ task[t].oauths = 0
                /\ task[t].ran = << >>
                /\ task[t].closes = 0)
    /\ [](\A t \in Busy : ENABLED WorkerStep(t))
    /\ [](phase = "running" => ENABLED Next)
    /\ [][\A t \in Tasks :
            (task[t].pc = "start" /\ task'[t].pc = "done") =>
                /\ phase' = phase
                /\ \A u \in Tasks \ {t} : task'[u] = task[u]]_vars

\* C12 witness: the batch is over, one account had no session and did
\* nothing, the other one ran all its actions and closed its session.
C12_Witness ==
    /\ phase = "finished"
    /\ \E t, u \in Tasks :
          /\ task[t].outcome = "no_session" /\ task[t].ran = << >>
          /\ task[u].outcome = "closed" /\ task[u].ran = enabled

\* the accounts whose run went through every stage
Completed == {t \in Tasks : task[t].pc = "done" /\ task[t].outcome \in LoopOutcomes}

\* C13: the number of accounts the summary reports is the number of accounts
\* whose run went through all stages; an account that failed is not counted.
C13_SummaryCountsCompletedAccounts ==
    summaries > 0 => reported = Cardinality(Completed)

\* C14: at most one summary is logged per run, it is logged when every
\* submitted account's worker has returned or raised, and a run that
\* submitted accounts and is over has logged it.
C14_SummaryOnceAfterAllWorkers ==
    /\ [](summaries <= 1)
    /\ [](summaries > 0 =>
            /\ phase = "finished"
            /\ Len(task) = Len(accounts)
            /\ Busy = {}
            /\ \A t \in Tasks : task[t].pc = "done")
    /\ []((phase = "finished" /\ accounts # << >>) => summaries = 1)
    /\ [][summaries' # summaries =>
            /\ summaries' = summaries + 1
            /\ \A t \in Tasks : task[t].pc = "done" /\ task'[t] = task[t]]_vars

\* C14 witness: the summary was logged after one worker had raised and the
\* other had returned.
C14_Witness ==
    /\ summaries = 1
    /\ \E t, u \in Tasks :
          /\ task[t].outcome = "raised"
          /\ task[u].outcome = "closed"

\* C15: the actions called for an account are, at every moment, the first
\* ones of the enabled list, each once and in its order, which is the order
\* of the registry; a step of the loop calls exactly the next one.
C15_ActionsInRegistrationOrder ==
    /\ [](enabled = SelectSeq2(Registry, {enabled[i] : i \in 1..Len(enabled)}))
    /\ [](\A t \in Tasks :
            /\ Len(task[t].ran) <= Len(enabled)
            /\ task[t].ran = SubSeq(enabled, 1, Len(task[t].ran))
            /\ task[t].pi = Len(task[t].ran) + 1)
    /\ [][\A t \in Tasks :
            task'[t].ran # task[t].ran =>
                /\ task[t].pc = "plugins"
                /\ task'[t].ran = Append(task[t].ran, enabled[Len(task[t].ran) + 1])]_vars

\* C15 witness: every plugin of the registry was enabled and an account ran
\* them all, from the search filter to the last API action.
C15_Witness ==
    /\ enabled = Registry
    /\ \E t \in Tasks : task[t].pc = "done" /\ task[t].ran = Registry

\* C16: the stages of an account run follow each other: the credentials are
\* loaded with the session held when one is required, an action is called
\* only when the account's credentials are resolved and its token file is
\* valid, and while an action remains to be called the session has not been
\* released.
C16_StagesInOrder ==
    \A t \in Tasks :
        /\ (task[t].load # "none" /\ requires_chrome) => task[t].sess
        /\ task[t].ran # << >> => task[t].token = "valid"
        /\ (task[t].pc = "plugins" /\ task[t].pi <= Len(enabled)) => task[t].closes = 0

\* C17: when every enabled action is an API action, no account of the batch
\* ever gets a session or a browser process and nothing is ever closed; and
\* with a pool of one worker an account is started only when every account
\* before it is done.
C17_NoSessionWithoutBrowserAction ==
    /\ (\A i \in 1..Len(enabled) : group(enabled[i]) = "api") =>
          \A t \in Tasks :
             /\ task[t].pc # "start"
             /\ ~task[t].sess
             /\ task[t].proc = "none"
             /\ task[t].closes = 0
    /\ maxConcurrent = 1 =>
          /\ Cardinality(Busy) <= 1
          /\ \A t, u \in Tasks :
                (t < u /\ task[u].pc # "queued") => task[t].pc = "done"

\* C17 witness: two accounts went through API actions only, one after the
\* other on a pool of one worker, and neither has a session.
C17_Witness ==
    /\ enabled = <<"search_filter", "unstar">>
    /\ maxConcurrent = 1
    /\ Len(task) = 2
    /\ phase = "finished"
    /\ \A t \in Tasks :
          /\ task[t].outcome = "no_chrome"
          /\ task[t].ran = enabled
          /\ task[t].proc = "none"

\* C18: an account whose credentials could not be loaded while it holds no
\* session is aborted at once: no handshake is started and no action called;
\* the step that finds the credentials missing changes no other account.
C18_NoTokenNoSessionAborts ==
    /\ [](\A t \in Tasks :
            (task[t].load = "failed" /\ ~task[t].sess) =>
                /\ task[t].pc = "done"
                /\ task[t].outcome = "no_token"
                /\ task[t].oauths = 0 /\ task[t].attempt = 0
                /\ task[t].ran = << >>)
    /\ [][\A t \in Tasks :
            (task[t].load = "none" /\ task'[t].load = "failed") =>
                /\ phase' = phase
                /\ \A u \in Tasks \ {t} : task'[u] = task[u]]_vars

\* C18 witness: with API actions only, one account had no usable token and
\* was aborted, the other one ran its actions.
C18_Witness ==
    \E t, u \in Tasks :
        /\ task[t].outcome = "no_token" /\ task[t].token = "absent"
        /\ ~task[t].sess /\ task[t].ran = << >>
        /\ task[u].outcome = "no_chrome" /\ task[u].ran = enabled

\* C19: a handshake is started only by an account that holds a session and
\* whose load_credentials_for raised, which it does only on a token file that
\* is not valid; an account whose credentials were loaded (valid, or
\* refreshed and rewritten) never starts one.
C19_HandshakeOnlyAfterFailedLoad ==
    /\ [](\A t \in Tasks :
            /\ (task[t].oauths > 0 \/ task[t].attempt > 0) =>
                  (task[t].load = "failed" /\ task[t].sess /\ requires_chrome)
            /\ task[t].pc = "oauth" =>
                  task[t].token \in {"absent", "unparsable", "expired", "stale"}
            /\ task[t].load = "ok" =>
                  (task[t].token = "valid" /\ task[t].oauths = 0 /\ task[t].attempt = 0))
    /\ [][\A t \in Tasks :
            (task[t].load = "none" /\ task'[t].load = "failed") =>
                task'[t].token # "valid"]_vars

\* C19 witness: one account loaded its credentials and started no handshake,
\* another one could not load them and got new credentials, written to its
\* token file, from its second handshake.
C19_Witness ==
    \E t, u \in Tasks :
        /\ task[t].load = "ok" /\ task[t].oauths = 0 /\ task[t].outcome = "closed"
        /\ task[u].load = "failed" /\ task[u].oauths = 2
        /\ task[u].token = "valid" /\ task[u].outcome = "closed"

\* C20: the value an account's next action is given as the shared search
\* input was written by an action of that account, or by no action at all.
C20_SharedInputIsPerAccount ==
    \A t \in Tasks :
        (task[t].pc = "plugins" /\ task[t].pi <= Len(enabled)) =>
            shared_search_term \in {0, t}

\* C34: for every session acquired in an account run, close_chrome_session
\* is called at most once during that run: no session is closed twice, and no
\* session is closed by an action and then reported kept open.
C34_SessionClosedAtMostOnce ==
    \A t \in Tasks :
        /\ task[t].closes <= 1
        /\ ~(task[t].closes >= 1 /\ task[t].outcome = "kept_open")

\* the exits of a run behind the acquisition of its session
SessionExits == {"oauth_fatal", "service_error", "closed", "kept_open"}

\* C35: a run that acquired a session and ended has called
\* close_chrome_session on it, unless an action that completed asked to keep
\* it open; it ends by one of the exits that follow the acquisition.
C35_EveryExitReleasesTheSession ==
    \A t \in Tasks :
        (task[t].pc = "done" /\ task[t].sess) =>
            /\ task[t].outcome \in SessionExits
            /\ task[t].outcome # "kept_open" => task[t].closes >= 1
            /\ task[t].outcome = "kept_open" =>
                  /\ task[t].keep_open
                  /\ \E i \in DOMAIN task[t].ran : keep_open_after_run(task[t].ran[i])

\* C35 witness: in one batch a run ended by the failure of the service
\* construction and another by the second failure of the authorization, and
\* both released their session.
C35_Witness ==
    \E t, u \in Tasks :
        /\ task[t].pc = "done" /\ task[t].sess
        /\ task[t].outcome = "service_error" /\ task[t].closes = 1
        /\ task[u].pc = "done" /\ task[u].sess
        /\ task[u].outcome = "oauth_fatal" /\ task[u].closes = 1

\* the enabled plugins that ask to keep the session open
KeepOpenPlugins == {i \in DOMAIN enabled : keep_open_after_run(enabled[i])}

\* C37: when the only enabled action that asks to keep the session open has
\* raised, keep_open stays false and the run ends with the release of its
\* session.
C37_FailedActionDoesNotKeepOpen ==
    \A t \in Tasks :
        (task[t].failed_keep /\ Cardinality(KeepOpenPlugins) = 1) =>
            /\ ~task[t].keep_open
            /\ task[t].pc = "done" =>
                  /\ task[t].outcome # "kept_open"
                  /\ task[t].sess =>
                        (task[t].outcome = "closed" /\ task[t].closes >= 1)

\* C37 witness: OpenGmailUIPlugin.run raised in a run with a session, the
\* run went on and ended with the release of the session.
C37_Witness ==
    \E t \in Tasks :
        /\ task[t].failed_keep /\ task[t].sess
        /\ Cardinality(KeepOpenPlugins) = 1
        /\ task[t].pc = "done" /\ task[t].outcome = "closed"
        /\ task[t].closes = 1

(* ------------------------- OAuth flow: claims --------------------------- *)
\* C3: the flow state of every listener is written at most once, it never
\* holds both a code and an error, and the outcome of the flow is the one
\* that was written first.
C3_FirstWriteWins ==
    \A k \in 1..Len(listener) :
        /\ Len(listener[k].writes) <= 1
        /\ ~(listener[k].shared.code # "none" /\ listener[k].shared.error # "none")
        /\ (k <= Len(results) /\ results[k] \in {"ok", "token_error"}) =>
               listener[k].writes[1] = "code"
        /\ (k <= Len(results) /\ results[k] = "error") =>
               listener[k].writes[1] = "error"

\* C4: once an execution of the flow has timed out, the authorization has
\* failed and no further flow is ever started.
C4_TimeoutIsTerminal ==
    \A i \in 1..Len(results) :
        results[i] = "timeout" => (flowPc = "raised" /\ Len(listener) = i)

\* C4 (amended): a timeout of the first execution is followed by exactly one
\* further execution, started without any request; a timeout of the second
\* execution makes the authorization fail, and no third flow is started.
C4_SecondTimeoutIsTerminal ==
    /\ Len(listener) <= 2
    /\ results = <<"timeout">> => (flowPc \in AttemptPcs /\ attempt = 2)
    /\ (Len(results) = 2 /\ results[2] = "timeout") =>
           (flowPc = "raised" /\ Len(listener) = 2)

\* C4 witness: both executions timed out and the authorization failed.
C4_Witness ==
    /\ results = <<"timeout", "timeout">>
    /\ flowPc = "raised"
    /\ Len(listener) = 2

\* the paths the redirect of the authorization server may use
CallbackPaths == {"/", "/callback"}

\* C24: a callback listener answers at most one request to / or /callback:
\* after the first answered request it handles no further one, even when
\* several requests arrive concurrently.
C24_ListenerServesOneExchange ==
    \A k \in 1..Len(listener) : listener[k].served <= 1

\* the handler of the accepted request req of listener k runs in this step
Handled(k, req) ==
    /\ req \in listener[k].handlers
    /\ listener'[k].handlers = listener[k].handlers \ {req}

\* C25: a handled request to / or /callback that carries neither code nor
\* error leaves the flow state as it was, and a handled request to another
\* path leaves the whole listener as it was: nothing is recorded and no
\* shutdown is started.
C25_OtherRequestsLeaveFlowState ==
    [][\A k \in 1..Len(listener) : \A req \in Requests :
          Handled(k, req) =>
             /\ req.path \notin CallbackPaths =>
                   listener'[k] = [listener[k] EXCEPT !.handlers = @ \ {req}]
             /\ (req.code = "none" /\ req.error = "none") =>
                   /\ listener'[k].shared = listener[k].shared
                   /\ listener'[k].writes = listener[k].writes]_vars

\* C25 witness: two requests were handled by one listener, one to another
\* path and one without parameters, and the flow state is still empty
C25_Witness ==
    /\ Len(listener) = 1
    /\ delivered = 2
    /\ listener[1].handlers = {}
    /\ listener[1].served = 1
    /\ listener[1].writes = << >>
    /\ listener[1].shared = [code |-> "none", error |-> "none"]

\* C32: in every execution of the flow the browser is navigated to the
\* authorization URL only after the callback server was created, holds its
\* listening socket and was found to accept a connection, and the wait for
\* the result starts only after the navigation was issued; so whenever the
\* browser can send a callback, the listening socket of its flow exists.
C32_ListenerBeforeNavigationBeforeWait ==
    /\ [](\A k \in 1..Len(listener) :
             listener[k].navigated # "no" =>
                (listener[k].bound /\ listener[k].ready))
    /\ [](flowPc = "waiting" => listener[attempt].navigated # "no")
    /\ [][flowPc' = "navigate" => flowPc \in {"probe", "navigate"}]_vars
    /\ [][flowPc' = "waiting" => flowPc \in {"navigate", "waiting"}]_vars

\* C32 witness: an execution waits for its callback; its server listens,
\* was probed, and the browser was navigated
C32_Witness ==
    /\ flowPc = "waiting"
    /\ attempt = 1
    /\ listener[1].serving
    /\ listener[1].ready
    /\ listener[1].navigated = "ok"
    /\ delivered = 0

\* C36: once an execution of the flow has ended, whatever its result, the
\* server it created neither serves nor holds its listening socket.
C36_EndedAttemptLeavesNoListener ==
    \A k \in 1..Len(results) :
        /\ ~listener[k].serving
        /\ ~listener[k].bound

\* C38: a failed navigation to the authorization URL does not end the
\* execution: the wait for the callback starts all the same, and the
\* execution ends only through a recorded callback or the deadline.
C38_FailedNavigationStillWaits ==
    /\ [][(flowPc = "navigate" /\ flowPc' # "navigate") =>
             (flowPc' = "waiting" /\ results' = results)]_vars
    /\ [](\A k \in 1..Len(results) :
             listener[k].navigated = "failed" =>
                results[k] \in {"ok", "token_error", "error", "timeout"})

\* C38 witness: the navigation of the first execution failed, and the
\* execution went on to wait until its deadline
C38_Witness ==
    /\ Len(results) >= 1
    /\ results[1] = "timeout"
    /\ listener[1].navigated = "failed"

\* a request to the callback path that carries both parameters
BothParameters ==
    {req \in Requests : /\ req.path \in CallbackPaths
                        /\ req.code # "none"
                        /\ req.error # "none"}

\* C39: the handler of a callback request that carries an error and a code
\* records the error and leaves the code of the flow state as it was; an
\* execution whose flow state was written by such a request only ends with
\* that error, never with a credential.
C39_ErrorWinsOverCode ==
    /\ [][\A k \in 1..Len(listener) : \A req \in BothParameters :
             Handled(k, req) =>
                /\ listener'[k].shared.error = req.error
                /\ listener'[k].shared.code = listener[k].shared.code
                /\ listener'[k].writes = Append(listener[k].writes, "error")]_vars
    /\ [](\A k \in 1..Len(listener) :
             (listener[k].both /\ Len(listener[k].writes) = 1) =>
                /\ listener[k].shared.code = "none"
                /\ listener[k].shared.error # "none"
                /\ k <= Len(results) => results[k] \in {"error", "timeout"})

\* C39 witness: the only request that wrote the flow state of an execution
\* carried both parameters, and the execution ended with the error
C39_Witness ==
    /\ Len(results) >= 1
    /\ results[1] = "error"
    /\ listener[1].both
    /\ Len(listener[1].writes) = 1
    /\ listener[1].handlers = {}

(* ------------------------- session manager: claims ---------------------- *)
\* C6: when close_chrome_session has returned, the browser process of the
\* session is not running any more (it has exited or is exiting).
C6_ClosedSessionLeavesNoProcess ==
    sPc = "closed" => proc \in {"exited", "dying"}

\* C7: when start_chrome_session has returned no session, the process it
\* launched, if any, is not left running.
C7_FailedStartLeavesNoProcess ==
    sPc = "failed" => proc \in {"none", "exited", "dying"}

\* the positions of close_chrome_session after its first step
ClosePcs ==
    {"c_connect", "c_enable", "c_evaluate", "c_flush", "c_browser_close",
     "c_wait", "c_terminate", "c_wait2", "c_kill"}

\* one step of a running close_chrome_session
CloseStep ==
    \/ CloseConnect
    \/ CloseEnable
    \/ CloseEvaluate
    \/ CloseFlush
    \/ CloseBrowserClose
    \/ CloseWait
    \/ CloseTerminate
    \/ CloseWait2
    \/ CloseKill

\* the steps of the latest call of close_chrome_session
CurrentClose ==
    IF \E i \in 1..Len(steps) : steps[i] = "close"
    THEN LET last == CHOOSE i \in 1..Len(steps) :
                        /\ steps[i] = "close"
                        /\ \A j \in (i + 1)..Len(steps) : steps[j] # "close"
         IN  SubSeq(steps, last + 1, Len(steps))
    ELSE << >>

\* the steps of s that are in the set keep, in their order
StepsIn(s, keep) == SelectSeq2(s, keep)

\* s takes its elements from order, each at most once, in the order of order
InOrderOf(s, order) ==
    /\ \A i \in 1..Len(s) : \E k \in 1..Len(order) : order[k] = s[i]
    /\ \A i, j \in 1..Len(s) :
          i < j => \E k, l \in 1..Len(order) :
                      /\ k < l
                      /\ order[k] = s[i]
                      /\ order[l] = s[j]

\* C21: close_chrome_session never raises to its caller: whatever fails (the
\* endpoint lookup, the websocket connection, a sent command, the exit wait,
\* terminate, kill), the call is never left by an exception, and from every
\* position of a running call a next step exists, down to its return.
C21_CloseNeverRaises ==
    [](/\ sPc # "raised"
       /\ sPc \in ClosePcs => ENABLED CloseStep)

\* C21 witness: a close has returned although nothing worked: no websocket
\* command went out, the process did not exit, and kill() itself raised
C21_Witness ==
    /\ sPc = "closed"
    /\ proc = "running"
    /\ StepsIn(CurrentClose, {"wait6", "terminate", "kill"})
          = <<"wait6", "terminate", "kill">>
    /\ \A i \in 1..Len(CurrentClose) : CurrentClose[i] # "flush"

\* the graceful steps of a close
GracefulSteps ==
    {"send:Page.enable", "send:Runtime.enable", "send:Runtime.evaluate",
     "flush", "send:Browser.close"}

\* the graceful steps of the latest close, in their order
Graceful == StepsIn(CurrentClose, GracefulSteps)

Escalation == StepsIn(CurrentClose, {"wait6", "terminate", "wait2", "kill"})

\* C23: release escalates in order: terminate() is called only after the
\* exit wait ended with the process not exited; kill() is called only after
\* terminate() raised or the wait after it ended with the process still not
\* exited; a process found exited by the exit wait is neither terminated
\* nor killed.
C23_EscalationInOrder ==
    /\ [](/\ InOrderOf(Escalation, <<"wait6", "terminate", "wait2", "kill">>)
          /\ Len(Escalation) > 0 => Escalation[1] = "wait6"
          /\ \A i \in 1..Len(Escalation) :
                Escalation[i] \in {"wait2", "kill"} =>
                   \E j \in 1..(i - 1) : Escalation[j] = "terminate")
    /\ [][/\ (sPc' = "c_terminate" /\ sPc # "c_terminate") =>
                (sPc = "c_wait" /\ proc # "exited")
          /\ (sPc' = "c_kill" /\ sPc # "c_kill") =>
                \/ sPc = "c_terminate"
                \/ sPc = "c_wait2" /\ proc # "exited"
          /\ (sPc = "c_wait" /\ proc = "exited") =>
                /\ sPc' \in {"c_wait", "closed"}
                /\ sPc' = "closed" => Escalation' = <<"wait6">>]_vars

\* C23 witness: a close went through the whole escalation: the process did
\* not exit within the exit wait, was terminated, was still there after the
\* second wait, and was killed
C23_Witness ==
    /\ sPc = "closed"
    /\ Escalation = <<"wait6", "terminate", "wait2", "kill">>

\* C31: when neither the clone of the account nor the shared install holds
\* a browser executable, start_chrome_session returns no session and has
\* launched no process; the executable of the clone is taken whenever the
\* clone has one, and the one of the shared install only when it has none.
C31_NoExecutableNoLaunch ==
    /\ (installs = {} /\ sPc # "start") =>
          /\ sPc = "failed"
          /\ proc = "none"
          /\ steps = << >>
    /\ \A i \in 1..Len(steps) :
          /\ steps[i] = "exe:clone" => "clone" \in installs
          /\ steps[i] = "exe:fallback" =>
                ("fallback" \in installs /\ "clone" \notin installs)
          /\ steps[i] = "popen" =>
                (i > 1 /\ steps[i - 1] \in {"exe:clone", "exe:fallback"})

\* C31 witness: no executable anywhere, and the start has failed
C31_Witness ==
    /\ installs = {}
    /\ sPc = "failed"
    /\ proc = "none"

(* ------------------------- CDP connections: claims ---------------------- *)
\* C9: on one connection the ids of the requests sent are strictly
\* increasing, so that no id is used twice.
C9_RequestIdsIncrease ==
    \A i, j \in 1..Len(sent) : i < j => sent[i].id < sent[j].id

\* C10: the message a wait for the response to request X completes on has
\* the id X; events and responses with another id are never taken.
C10_TakenMessageHasTheAwaitedId ==
    taken # NoTaken => (taken.msg.hasId /\ taken.msg.id = taken.for)

\* C10 witness: a ready-state wait completed after it had dropped both an
\* event and the response to the other request of its connection.
C10_Witness ==
    /\ ckind = "ready_state"
    /\ taken # NoTaken
    /\ taken.for = FirstTabId + 2
    /\ dropped = {"event", "response"}

\* C29: with wait_load, cdp_navigate returns True only on a
\* Page.loadEventFired event that the requested navigation produced, and
\* it returns False only when no such event was read before the deadline;
\* no response and no other event makes it return True.
C29_TrueOnlyOnLoadOfRequestedNavigation ==
    ckind = "navigate" =>
       /\ ret.ok = "True" =>
             /\ ~ret.by.hasId
             /\ ret.by.method = "Page.loadEventFired"
             /\ ret.by.re \in 1..Len(sent)
             /\ sent[ret.by.re].method = "Page.navigate"
       /\ ret.ok = "False" => ret.by = NoRet.by
       /\ ret.ok # "none" <=> cpc \in {"done", "failed"}

(* ------------------------- port allocation: claims ---------------------- *)
\* C26: authorization flows of different workers use disjoint listen ports
\* and disjoint flow state: no two callback servers listen on the same port,
\* and the callback of one worker's flow is never recorded in the state of
\* another worker's flow.
C26_FlowsUseDisjointPortsAndState ==
    /\ \A w, v \in PortWorkers :
          (w # v /\ pw[w].listening /\ pw[v].listening) =>
             pw[w].oport # pw[v].oport
    /\ \A w \in PortWorkers : pw[w].recorded \subseteq {w}

\* C27: no two live browser processes were launched with the same
\* remote-debugging port.
C27_DebugPortsAreUnique ==
    \A w, v \in PortWorkers :
       (w # v /\ pw[w].chrome = "live" /\ pw[v].chrome = "live") =>
          pw[w].cport # pw[v].cport

(* ------------------------- path derivation: claims ---------------------- *)
\* C28: the directories are an injective function of the raw account
\* identifier: two different identifiers get different profile directories
\* and different install directories, equal identifiers get the same ones.
C28_ProfilePathIsInjective ==
    \A i, j \in 1..Len(ids) :
       (dirs[i] # NoDirs /\ dirs[j] # NoDirs) =>
          /\ ids[i] # ids[j] =>
                /\ dirs[i].profile # dirs[j].profile
                /\ dirs[i].install # dirs[j].install
          /\ ids[i] = ids[j] => dirs[i] = dirs[j]

\* C40: the token path is an injective function of the account identifier:
\* two different identifiers get different token paths.
C40_TokenPathIsInjective ==
    \A i, j \in 1..Len(ids) :
       (dirs[i] # NoDirs /\ dirs[j] # NoDirs /\ ids[i] # ids[j]) =>
          dirs[i].token # dirs[j].token

(* ------------------------- credential store: claims --------------------- *)
\* C33: load_credentials_for returns credentials only when the stored ones
\* are valid or were refreshed with success, the refreshed credentials are in
\* the token file when it returns them, and when the stored credentials are
\* not usable or creds.refresh fails it raises and leaves the file as it was.
C33_LoadReturnsOnlyUsableCredentials ==
    \A i \in 1..Len(loaded) :
       LET l == loaded[i]
       IN l # NoLoad =>
             /\ l.result # "raise" =>
                   \/ l.before = "valid" /\ l.result = "valid" /\ l.after = l.before
                   \/ /\ l.before = "expired" /\ l.refresh = "ok"
                      /\ l.result = "refreshed" /\ l.after = "valid"
             /\ (\/ l.before \in {"absent", "unparsable", "stale"}
                 \/ l.before = "expired" /\ l.refresh = "refresh_error") =>
                   (l.result = "raise" /\ l.after = l.before)

\* C33 witness: one token file was refreshed and rewritten, the refresh of
\* the other failed and the file was left expired.
C33_Witness ==
    \E i, j \in 1..Len(loaded) :
       /\ loaded[i].result = "refreshed" /\ store[token_path_for(ids[i])] = "valid"
       /\ loaded[j].before = "expired" /\ loaded[j].refresh = "refresh_error"
       /\ loaded[j].result = "raise" /\ store[token_path_for(ids[j])] = "expired"

(* ------------------------- blocking waits ------------------------------- *)
\* one of the functions that wait is running: a session start or close,
\* one login, or one cdp_navigate
InitWaits ==
    \/ InitSessSpec
    \/ InitOAuthSpec
    \/ InitCdpSpec /\ ckind \in {"navigate", "navigate_nowait"}

NextWaits ==
    \/ NextSess
    \/ NextOAuth
    \/ NextCdp

\* the steps of start_chrome_session and close_chrome_session themselves
SessStep ==
    \/ Launch
    \/ WaitEndpoint
    \/ Discover
    \/ CloseStep

\* the steps of oauth_first_login_in_session itself
OAuthStep ==
    \/ BeginAttempt
    \/ Serve
    \/ Probe
    \/ Navigate
    \/ Poll
    \/ Timeout

\* the steps of the function that holds the CDP connection
CdpStep ==
    \/ Connect
    \/ Send
    \/ Recv
    \/ WaitTimeout

\* the thread that runs a function keeps running it; nothing is assumed
\* about the browser, the process, the callers or the HTTP clients
SpecWaits ==
    /\ InitWaits
    /\ [][NextWaits]_vars
    /\ WF_vars(SessStep)
    /\ WF_vars(OAuthStep)
    /\ WF_vars(CdpStep)

\* C30: every blocking wait is bounded by a deadline: a running
\* start_chrome_session returns, a running close_chrome_session returns, a
\* running cdp_navigate returns and a running authorization ends, whether
\* or not the browser answers, an event or a callback arrives, or the
\* process exits.
C30_EveryWaitEnds ==
    /\ (sPc \in {"start", "wait_endpoint", "discover"}) ~> (sPc \in {"ready", "failed"})
    /\ (sPc \in ClosePcs) ~> (sPc = "closed")
    /\ (cpc \in {"connect", "send", "wait"}) ~> (cpc \in {"done", "failed"})
    /\ (flowPc \in AttemptPcs) ~> (flowPc \in {"returned", "raised"})

\* C30 witness: cdp_navigate has returned False at its deadline although
\* the browser sent nothing at all on the connection
C30_Witness ==
    /\ ckind = "navigate"
    /\ cpc = "done"
    /\ ret.ok = "False"
    /\ Len(sent) = 2
    /\ answered = {}
    /\ events = 0

====
